---- MODULE Spec2Model ----
(***************************************************************************)
(* Model of the session-continuity core of src/App.tsx: the session        *)
(* controller (startTranslation / stopTranslation and the callbacks of    *)
(* ai.live.connect), the capture callback, the playback scheduler and the  *)
(* transcript assembler of the onmessage handler.                          *)
(*                                                                         *)
(* Every invocation of startTranslation that reaches its await of          *)
(* getUserMedia is an "attempt"; the attempt and the Session Handle it     *)
(* opens share one index.  All callbacks run on one event loop, so each    *)
(* action below is one callback (or one synchronous segment of an async    *)
(* function between two awaits).                                           *)
(***************************************************************************)
EXTENDS Integers, Sequences, FiniteSets, TLC

\* ------------------------------------------------------------------ bounds
MaxAttempts == 3        \* startTranslation invocations explored in one run
MaxShort == 2           \* startTranslation invocations in a short run
MaxMsgs == 3            \* inbound messages explored in one run
MaxDur == 2             \* longest decoded audio buffer, in clock ticks
MaxClock == 3           \* last tick of the output clock explored
MaxSpoken == 2          \* inbound messages in a run of whole conversations
MaxLog == 16            \* longest record log a run starts from

Msgs == 1..MaxMsgs
NoAudio == -1           \* a message without an audio part
BadAudio == -2          \* an audio part that fails to decode
NoText == <<>>          \* a message without that transcription part
NoTextField == <<"undefined">>    \* a transcription part without a text

Attempts == 1..MaxAttempts
NoSession == 0          \* sessionRef.current === null
Running == -1           \* an output context that has not been closed

SESSION_MAX_DURATION == 270000    \* 4.5 * 60 * 1000 ms

VARIABLES
  status,               \* useState<TranslationState> (App.tsx:14): the
                        \* status with every setStatus so far applied
  page,                 \* the status of the last render: the one the
                        \* buttons on the page are drawn from
  sessionRef,           \* sessionRef.current, NoSession or a handle   (:33)
  isUserInitiatedStop,  \* isUserInitiatedStop.current                 (:34)
  rotationTimerRef,     \* rotationTimerRef.current: 0, or the id of the
                        \* latest Rotation Timer (the handle that armed it)
  rotationTimers,       \* pending Rotation Timer timeouts: id and delay
  backoffTimers,        \* pending 5 s retry timers, by scheduling attempt
  att,                  \* per attempt: async position, handle, closures
  nAtt,                 \* attempts created so far
  scriptProcessorRef,   \* scriptProcessorRef.current !== null         (:28)
  audioContextInRef,    \* audioContextInRef.current !== null          (:26)
  audioContextOutRef,   \* audioContextOutRef.current !== null         (:27)
  audioProcessQueued,   \* an audioprocess event of a script processor that
                        \* cleanupAudio has disconnected is still queued
  lastSend              \* history: the latest sendRealtimeInput call:
                        \*   to        the handle it was made on
                        \*   live      that handle's socket was open
                        \*   rotating  a timer rotation was in flight
                        \*   toPre     every rotation in flight had started
                        \*             with that handle in sessionRef
                        \*   stopped   isUserInitiatedStop at the call
                        \*   dropped   a later chunk found a handle held and
                        \*             the stop flag set, and was not sent

VARIABLES
  currentInputTransRef,   \* currentInputTransRef.current               (:41)
  currentOutputTransRef,  \* currentOutputTransRef.current              (:42)
  transcriptions,         \* useState<Transcription[]>, the record log  (:20)
  pendingRecords,         \* the records of the setTranscriptions updates
                          \* queued since the last render
  historyRef,             \* historyRef.current                         (:40)
  turnLog,                \* history: per turn, the partial texts handled,
                          \* input and output side; the last entry is the
                          \* turn in progress
  bufFrom                 \* history: the handles whose partial texts the
                          \* two buffers hold

VARIABLES
  nextStartTimeRef,       \* nextStartTimeRef.current                   (:29)
  sourcesRef,             \* sourcesRef.current, by message number      (:30)
  outClock,               \* currentTime of the output AudioContext
  decoding,               \* onmessage calls suspended at await decodeAudioData:
                          \*   id, h, msg  the message, its number and handle
                          \*   frozen      the currentTime at which the output
                          \*               context the call holds was closed,
                          \*               Running while it is not
  started,                \* history: source.start(at) per message number
  nMsg                    \* messages received so far

VARIABLES
  sourceLang,             \* useState<SupportedLanguage>                (:12)
  targetLang              \* useState<SupportedLanguage>                (:13)

VARIABLES
  throwsAt                \* the line of startTranslation, above its await,
                          \* at which the build or the browser of this run
                          \* makes it throw; NoThrow when none does

timerVars == <<rotationTimerRef, rotationTimers>>

langVars == <<sourceLang, targetLang>>

ctlVars == <<status, sessionRef, isUserInitiatedStop, timerVars,
             backoffTimers, att, nAtt, scriptProcessorRef,
             audioContextInRef, audioContextOutRef, audioProcessQueued,
             lastSend>>

txtVars == <<currentInputTransRef, currentOutputTransRef, transcriptions,
             pendingRecords, historyRef, turnLog, bufFrom>>

audVars == <<nextStartTimeRef, sourcesRef, outClock, decoding, started, nMsg>>

\* What no callback of the controller or of a handle changes.
envVars == <<langVars, throwsAt>>

vars == <<ctlVars, page, txtVars, audVars, envVars>>

\* ------------------------------------------------------------ status values
IdleStatus ==
  [isActive |-> FALSE, isConnecting |-> FALSE, isReconnecting |-> FALSE,
   error |-> "null"]

ActiveStatus ==
  [isActive |-> TRUE, isConnecting |-> FALSE, isReconnecting |-> FALSE,
   error |-> "null"]

\* The status the catch block of a start() sets for the error err, whose
\* message is a text or is missing, NoMessage (App.tsx:228).
NoMessage == ""

ErrorStatus(err) ==
  [isActive |-> FALSE, isConnecting |-> FALSE, isReconnecting |-> FALSE,
   error |-> IF err = NoMessage THEN "Connection failed" ELSE err]

\* pc: position of the async startTranslation call and of sessionPromise
\*   "unused"      no such call yet
\*   "media"       suspended at  await getUserMedia
\*   "connecting"  ai.live.connect called, handle not yet open
\*   "opened"      onopen ran, sessionPromise not yet resolved
\*   "resolved"    the sessionPromise.then callback ran
\*   "failed"      the call ended in catch, or sessionPromise never resolves
\*   "retried"     as "failed", and the retry timer of its catch has fired
\* The rotationContext of the systemInstruction (App.tsx:110-112, 211): the
\* framing sentence and the lines of recentHistory after it.
NoContext == [framing |-> "none", history |-> <<>>]

\* hs: the handle's socket
\*   "none" | "connecting" | "open" | "closing" (closed, event pending) |
\*   "closed" (the `closed` event was delivered, or no socket ever existed)
UnusedAttempt ==
  [pc |-> "unused", hs |-> "none", isRotation |-> FALSE,
   capReconnecting |-> FALSE,  \* status.isReconnecting seen by the closure
   oldSession |-> NoSession,   \* const oldSession of onopen
   trigger |-> "none",         \* history: what invoked startTranslation
   pre |-> NoSession,          \* history: sessionRef at the invocation
   closeCalls |-> 0,           \* history: close() calls on the handle
   closeCause |-> "none",      \* history: why the socket closed
   context |-> NoContext]      \* history: rotationContext given to connect

\* A LiveServerMessage: the decoded duration of its audio part, its two
\* partial texts (strings as sequences of characters) and turnComplete.
NoTurn == [in |-> <<>>, out |-> <<>>]    \* a turn with no text handled yet

NotStarted == [at |-> -1, dur |-> 0, playFrom |-> -1, live |-> FALSE]

\* The errors a run draws from: err.message is a text or is missing.
Errors == {"Permission denied", "An API Key must be set", NoMessage}

\* The lines of the try block, above its await, that throw where the build
\* or the browser lacks what they use: the constructor of GoogleGenAI (no
\* API key), those of the two AudioContexts (no such constructor, or none
\* for the sample rate), and navigator.mediaDevices.getUserMedia (no
\* mediaDevices).  What a line lacks in one call it lacks in every call.
ThrowSites == {91, 97, 100, 103}
NoThrow == 0

Init ==
  /\ status = IdleStatus
  /\ page = IdleStatus
  /\ sessionRef = NoSession
  /\ isUserInitiatedStop = TRUE
  /\ rotationTimerRef = 0
  /\ rotationTimers = {}
  /\ backoffTimers = {}
  /\ att = [a \in Attempts |-> UnusedAttempt]
  /\ nAtt = 0
  /\ scriptProcessorRef = FALSE
  /\ audioContextInRef = FALSE
  /\ audioContextOutRef = FALSE
  /\ audioProcessQueued = FALSE
  /\ lastSend = [to |-> NoSession, live |-> FALSE, rotating |-> FALSE,
                 toPre |-> FALSE, stopped |-> FALSE, dropped |-> FALSE]
  /\ currentInputTransRef = <<>>
  /\ currentOutputTransRef = <<>>
  /\ transcriptions = <<>>
  /\ pendingRecords = <<>>
  /\ historyRef = <<>>
  /\ turnLog = <<NoTurn>>
  /\ bufFrom = {}
  /\ nextStartTimeRef = 0
  /\ sourcesRef = {}
  /\ outClock = 0
  /\ decoding = {}
  /\ started = [i \in Msgs |-> NotStarted]
  /\ nMsg = 0
  /\ sourceLang = "English"
  /\ targetLang = "Chinese"
  /\ throwsAt \in {NoThrow} \cup ThrowSites

\* --------------------------------------------------------------- helpers
\* session.close(): a no-op on a socket that is not open.
closeSession(A, h, cause) ==
  [A EXCEPT ![h].closeCalls = @ + 1,
            ![h].hs = IF @ = "open" THEN "closing" ELSE @,
            ![h].closeCause = IF A[h].hs = "open" THEN cause ELSE @]

\* Rotations begun by the Rotation Timer over a held handle that have not
\* yet swapped their own handle in: "rotation start .. confirmed swap".
InFlight(A) ==
  {a \in Attempts : /\ A[a].trigger = "timer"
                    /\ A[a].pre # NoSession
                    /\ A[a].pc \in {"media", "connecting", "opened"}}

\* window.clearTimeout(id) on the pending Rotation Timers T.
clearTimeout(T, id) == {t \in T : t.id # id}

\* onopen of handle a arming its timer without rescinding the one before.
armWithoutClear(a) ==
  rotationTimers \cup {[id |-> a, delay |-> SESSION_MAX_DURATION]}

\* The pending Rotation Timers after onopen of handle a (App.tsx:132-135):
\* the timeout in rotationTimerRef is cleared, a new one is set.
armRotationTimer(a) ==
  clearTimeout(rotationTimers, rotationTimerRef)
    \cup {[id |-> a, delay |-> SESSION_MAX_DURATION]}

\* audioContextOutRef.current.close() as the suspended onmessage calls D see
\* it: the context each of them holds in ctx stops at its current time.
closeOutputContext(D) ==
  {[d EXCEPT !.frozen = IF @ = Running THEN outClock ELSE @] : d \in D}

\* cleanupAudio(): drops the script processor and both audio contexts,
\* stops and forgets every scheduled source, resets the next start time.
\* An audioprocess event the processor had dispatched stays queued.
cleanupAudio ==
  /\ scriptProcessorRef' = FALSE
  /\ audioContextInRef' = FALSE
  /\ audioContextOutRef' = FALSE
  /\ decoding' = closeOutputContext(decoding)
  /\ sourcesRef' = {}
  /\ nextStartTimeRef' = 0
  /\ audioProcessQueued' = (audioProcessQueued \/ scriptProcessorRef)

\* What the message handlers touch and the controller does not.
streamVars == <<txtVars, started, nMsg>>

\* The same without historyRef.
clickVars == <<currentInputTransRef, currentOutputTransRef, transcriptions,
               pendingRecords, turnLog, bufFrom, started, nMsg>>

\* A click is rendered before the next event, and React runs the effects
\* of the renders before it first: the effect of App.tsx:44-49.
flushPassiveEffects == historyRef' = transcriptions

\* startTranslation(isRotation) up to its first suspension (await
\* getUserMedia).  A is att as the calling callback left it; cap is the
\* status.isReconnecting of the render whose startTranslation is called.
\* Sets status, isUserInitiatedStop, att, nAtt, the three audio refs,
\* sourcesRef, nextStartTimeRef, audioProcessQueued, decoding and outClock.
startTranslation(isRotation, A, cap, trig) ==
  /\ nAtt < MaxAttempts
  /\ nAtt' = nAtt + 1
  /\ IF isRotation
       THEN /\ status' = [status EXCEPT !.isReconnecting = TRUE]
            /\ UNCHANGED isUserInitiatedStop
       ELSE /\ status' = [status EXCEPT !.isConnecting = TRUE, !.error = "null"]
            /\ isUserInitiatedStop' = FALSE
  \* if (!isRotation) cleanupAudio();
  /\ scriptProcessorRef' = IF isRotation THEN scriptProcessorRef ELSE FALSE
  /\ sourcesRef' = IF isRotation THEN sourcesRef ELSE {}
  /\ nextStartTimeRef' = IF isRotation THEN nextStartTimeRef ELSE 0
  /\ audioProcessQueued' = IF isRotation THEN audioProcessQueued
                           ELSE (audioProcessQueued \/ scriptProcessorRef)
  /\ decoding' = IF isRotation THEN decoding ELSE closeOutputContext(decoding)
  \* then a missing context is created; a new output context starts at 0
  /\ audioContextInRef' = TRUE
  /\ audioContextOutRef' = TRUE
  /\ outClock' = IF isRotation /\ audioContextOutRef THEN outClock ELSE 0
  /\ att' = [A EXCEPT ![nAtt + 1] =
               [UnusedAttempt EXCEPT !.pc = "media", !.isRotation = isRotation,
                                     !.capReconnecting = cap, !.trigger = trig,
                                     !.pre = sessionRef]]

\* A callback that does not call startTranslation leaves att as A.
noStart(A) ==
  /\ att' = A
  /\ UNCHANGED <<status, isUserInitiatedStop, nAtt, scriptProcessorRef,
                 audioContextInRef, audioContextOutRef, audioProcessQueued,
                 sourcesRef, nextStartTimeRef, outClock, decoding>>

\* onclose reading the reconnecting flag of the current status instead of
\* the one its closure captured.
oncloseLiveStatus(a, A) ==
  IF ~isUserInitiatedStop /\ ~status.isReconnecting
    THEN startTranslation(TRUE, A, A[a].capReconnecting, A[a].closeCause)
    ELSE noStart(A)

\* The onclose callback of handle a (App.tsx:194-200); A is att with the
\* socket of a already marked closed.
onclose(a, A) ==
  IF ~isUserInitiatedStop /\ ~A[a].capReconnecting
    THEN startTranslation(TRUE, A, A[a].capReconnecting, A[a].closeCause)
    ELSE noStart(A)

\* --------------------------------------------------------------- actions
\* The user presses the start button: shown when neither isActive nor
\* isReconnecting, disabled while isConnecting (App.tsx:377-380).
Start ==
  /\ ~page.isActive /\ ~page.isReconnecting /\ ~page.isConnecting
  /\ throwsAt = NoThrow
  /\ startTranslation(FALSE, att, page.isReconnecting, "start")
  /\ page' = [page EXCEPT !.isConnecting = TRUE, !.error = "null"]
  /\ flushPassiveEffects
  /\ UNCHANGED <<sessionRef, timerVars, backoffTimers, lastSend, clickVars>>
  /\ UNCHANGED envVars

\* The user presses the start button and startTranslation(false) throws
\* err at line site, above its await: the lines above it have run, the
\* catch block records the error, and getUserMedia is never awaited, so no
\* attempt comes of the call.
StartThrows(site, err) ==
  /\ ~page.isActive /\ ~page.isReconnecting /\ ~page.isConnecting
  /\ throwsAt = site
  /\ isUserInitiatedStop' = FALSE
  /\ status' = ErrorStatus(err)
  /\ page' = ErrorStatus(err)
  /\ flushPassiveEffects
  \* line 94, cleanupAudio(), has run when the throw is below it
  /\ scriptProcessorRef' = IF site > 94 THEN FALSE ELSE scriptProcessorRef
  /\ sourcesRef' = IF site > 94 THEN {} ELSE sourcesRef
  /\ nextStartTimeRef' = IF site > 94 THEN 0 ELSE nextStartTimeRef
  /\ audioProcessQueued' = IF site > 94
                             THEN (audioProcessQueued \/ scriptProcessorRef)
                             ELSE audioProcessQueued
  /\ decoding' = IF site > 94 THEN closeOutputContext(decoding) ELSE decoding
  \* lines 96-101: the contexts created above the throw
  /\ audioContextInRef' = IF site > 97 THEN TRUE
                           ELSE IF site > 94 THEN FALSE ELSE audioContextInRef
  /\ audioContextOutRef' = IF site > 100 THEN TRUE
                            ELSE IF site > 94 THEN FALSE ELSE audioContextOutRef
  /\ outClock' = IF site > 100 THEN 0 ELSE outClock
  /\ UNCHANGED <<sessionRef, timerVars, backoffTimers, att, nAtt, lastSend,
                 clickVars>>
  /\ UNCHANGED envVars

\* The user presses the close button of the error banner, shown while
\* status.error is set (App.tsx:521-527).
DismissError ==
  /\ page.error # "null"
  /\ status' = [status EXCEPT !.error = "null"]
  /\ page' = [page EXCEPT !.error = "null"]
  /\ flushPassiveEffects
  /\ UNCHANGED <<sessionRef, isUserInitiatedStop, timerVars, backoffTimers,
                 att, nAtt, scriptProcessorRef, audioContextInRef,
                 audioContextOutRef, audioProcessQueued, sourcesRef,
                 nextStartTimeRef, outClock, lastSend, decoding, clickVars>>
  /\ UNCHANGED envVars

\* The user presses the stop button, shown in every other case.
Stop ==
  /\ page.isActive \/ page.isReconnecting
  /\ isUserInitiatedStop' = TRUE
  /\ rotationTimers' = clearTimeout(rotationTimers, rotationTimerRef)
  /\ UNCHANGED rotationTimerRef
  /\ IF sessionRef # NoSession
       THEN att' = closeSession(att, sessionRef, "stop")
       ELSE att' = att
  /\ sessionRef' = NoSession
  /\ cleanupAudio
  /\ status' = IdleStatus
  /\ page' = IdleStatus
  /\ flushPassiveEffects
  /\ UNCHANGED <<backoffTimers, nAtt, lastSend, outClock, clickVars>>
  /\ UNCHANGED envVars

\* The number of records historyRef.current.slice(-15) keeps.
ContextWindow == 15

Min(x, y) == IF x <= y THEN x ELSE y

\* Array.prototype.slice(-k): the last k elements, all when there are fewer.
sliceLast(s, k) == SubSeq(s, Len(s) - Min(k, Len(s)) + 1, Len(s))

\* recentHistory (App.tsx:106-108): one line per record, labelled Input for
\* a record of type user and Translation for the others, in the order of
\* the slice.  Records carry no timestamp here, so the lines have none.
recentHistory ==
  LET recent == sliceLast(historyRef, ContextWindow)
  IN [i \in 1..Len(recent) |->
        [label |-> IF recent[i].type = "user" THEN "Input" ELSE "Translation",
         text |-> recent[i].text]]

\* rotationContext (App.tsx:110-112).
rotationContext(isRotation) ==
  IF isRotation THEN [framing |-> "rotation", history |-> recentHistory]
                ELSE [framing |-> "new", history |-> <<>>]

\* getUserMedia resolves: startTranslation goes on to ai.live.connect.
MediaResolves(a) ==
  /\ att[a].pc = "media"
  /\ noStart([att EXCEPT ![a].pc = "connecting", ![a].hs = "connecting",
                         ![a].context = rotationContext(att[a].isRotation)])
  /\ UNCHANGED <<sessionRef, timerVars, backoffTimers, lastSend, streamVars>>
  /\ UNCHANGED <<page, envVars>>

\* getUserMedia rejects with the error err: the catch block of
\* startTranslation.
MediaRejects(a, err) ==
  /\ att[a].pc = "media"
  /\ att' = [att EXCEPT ![a].pc = "failed", ![a].hs = "closed"]
  /\ IF ~att[a].isRotation
       THEN /\ status' = ErrorStatus(err)
            /\ UNCHANGED backoffTimers
       ELSE /\ status' = [status EXCEPT !.isReconnecting = FALSE]
            /\ backoffTimers' = backoffTimers \cup {a}
  /\ UNCHANGED <<sessionRef, isUserInitiatedStop, timerVars, nAtt,
                 scriptProcessorRef, audioContextInRef, audioContextOutRef,
                 audioProcessQueued, sourcesRef, nextStartTimeRef, outClock,
                 lastSend, decoding, streamVars>>
  /\ UNCHANGED <<page, envVars>>

\* The promise of ai.live.connect rejects before any socket event.  The
\* promise is not awaited and has no rejection handler: no code runs.
ConnectRejects(a) ==
  /\ att[a].pc = "connecting" /\ att[a].hs = "connecting"
  /\ noStart([att EXCEPT ![a].pc = "failed", ![a].hs = "closed",
                         ![a].closeCause = "rejected"])
  /\ UNCHANGED <<sessionRef, timerVars, backoffTimers, lastSend, streamVars>>
  /\ UNCHANGED <<page, envVars>>

\* The onopen callback of handle a.  When no script processor exists and
\* the input context was dropped by cleanupAudio, createMediaStreamSource
\* is called on null and the callback ends there by a TypeError.
HandleOpens(a) ==
  /\ att[a].pc = "connecting" /\ att[a].hs = "connecting"
  /\ att' = [att EXCEPT ![a].pc = "opened", ![a].hs = "open",
                        ![a].oldSession = sessionRef]
  /\ status' = ActiveStatus
  /\ rotationTimers' = armRotationTimer(a)
  /\ rotationTimerRef' = a
  /\ scriptProcessorRef' = (scriptProcessorRef \/ audioContextInRef)
  /\ UNCHANGED <<sessionRef, isUserInitiatedStop, backoffTimers, nAtt,
                 audioContextInRef, audioContextOutRef, audioProcessQueued,
                 sourcesRef, nextStartTimeRef, outClock, lastSend, decoding,
                 streamVars>>
  /\ UNCHANGED <<page, envVars>>

\* sessionPromise resolves: the then callback registered by onopen.
PromiseResolves(a) ==
  /\ att[a].pc = "opened"
  /\ sessionRef' = a
  /\ LET A == [att EXCEPT ![a].pc = "resolved"]
         old == att[a].oldSession
     IN noStart(IF old # NoSession /\ old # a
                  THEN closeSession(A, old, "retire")
                  ELSE A)
  /\ UNCHANGED <<timerVars, backoffTimers, lastSend, streamVars>>
  /\ UNCHANGED <<page, envVars>>

\* The Rotation Timer armed by onopen fires.
RotationTimerFires ==
  /\ \E t \in rotationTimers :
       /\ rotationTimers' = rotationTimers \ {t}
       /\ IF ~isUserInitiatedStop
            THEN startTranslation(TRUE, att, att[t.id].capReconnecting, "timer")
            ELSE noStart(att)
  /\ UNCHANGED rotationTimerRef
  /\ UNCHANGED <<sessionRef, backoffTimers, lastSend, streamVars>>
  /\ UNCHANGED <<page, envVars>>

\* The 5 s retry timer scheduled by the catch block of attempt b fires.
BackoffFires(b) ==
  /\ b \in backoffTimers
  /\ backoffTimers' = backoffTimers \ {b}
  /\ LET A == [att EXCEPT ![b].pc = "retried"]
     IN IF ~isUserInitiatedStop
          THEN startTranslation(TRUE, A, att[b].capReconnecting, "backoff")
          ELSE noStart(A)
  /\ UNCHANGED <<sessionRef, timerVars, lastSend, streamVars>>
  /\ UNCHANGED <<page, envVars>>

\* The `closed` event of a socket closed by session.close() or by an error.
CloseEvent(a) ==
  /\ att[a].hs = "closing"
  /\ onclose(a, [att EXCEPT ![a].hs = "closed"])
  /\ UNCHANGED <<sessionRef, timerVars, backoffTimers, lastSend, streamVars>>
  /\ UNCHANGED <<page, envVars>>

\* The remote end closes the socket of a (open, or still connecting, in
\* which case sessionPromise never resolves): the `closed` event.
RemoteClose(a) ==
  /\ att[a].hs \in {"connecting", "open"}
  /\ onclose(a, [att EXCEPT ![a].hs = "closed", ![a].closeCause = "remote",
                            ![a].pc = IF @ = "connecting" THEN "failed" ELSE @])
  /\ UNCHANGED <<sessionRef, timerVars, backoffTimers, lastSend, streamVars>>
  /\ UNCHANGED <<page, envVars>>

\* The `error` event of the socket of a (App.tsx:201-206).  A socket error
\* ends the connection; its `closed` event follows as CloseEvent.
HandleError(a) ==
  /\ att[a].hs \in {"connecting", "open"}
  /\ att' = [att EXCEPT ![a].hs = "closing", ![a].closeCause = "error",
                        ![a].pc = IF @ = "connecting" THEN "failed" ELSE @]
  /\ status' = IF att[a].isRotation
                 THEN [status EXCEPT !.isReconnecting = FALSE]
                 ELSE status
  /\ UNCHANGED <<sessionRef, isUserInitiatedStop, timerVars, backoffTimers,
                 nAtt, scriptProcessorRef, audioContextInRef,
                 audioContextOutRef, audioProcessQueued, sourcesRef,
                 nextStartTimeRef, outClock, lastSend, decoding, streamVars>>
  /\ UNCHANGED <<page, envVars>>

\* sessionRef.current.sendRealtimeInput({ media: pcmBlob }).
sendRealtimeInput ==
  lastSend' = [to |-> sessionRef,
               live |-> att[sessionRef].hs = "open",
               rotating |-> InFlight(att) # {},
               toPre |-> \A a \in InFlight(att) : att[a].pre = sessionRef,
               stopped |-> isUserInitiatedStop,
               dropped |-> FALSE]

\* onaudioprocess sending to whatever handle is held, stop flag or not.
onaudioprocessNoStopFlag ==
  IF sessionRef # NoSession
    THEN sendRealtimeInput
    ELSE UNCHANGED lastSend

\* scriptProcessor.onaudioprocess for one captured chunk (App.tsx:143-149):
\* the chunk is sent if a handle is held and the stop flag is down.
onaudioprocess ==
  IF sessionRef # NoSession /\ ~isUserInitiatedStop
    THEN sendRealtimeInput
    ELSE IF sessionRef # NoSession
      THEN lastSend' = [lastSend EXCEPT !.dropped = TRUE]
      ELSE UNCHANGED lastSend

\* The connected script processor delivers a chunk.
Capture ==
  /\ scriptProcessorRef
  /\ onaudioprocess
  /\ UNCHANGED <<status, sessionRef, isUserInitiatedStop, timerVars,
                 backoffTimers, att, nAtt, scriptProcessorRef,
                 audioContextInRef, audioContextOutRef, audioProcessQueued,
                 sourcesRef, nextStartTimeRef, outClock, decoding, streamVars>>
  /\ UNCHANGED <<page, envVars>>

\* The audioprocess event that was queued when its processor was
\* disconnected is handled.
CaptureQueued ==
  /\ audioProcessQueued
  /\ audioProcessQueued' = FALSE
  /\ onaudioprocess
  /\ UNCHANGED <<status, sessionRef, isUserInitiatedStop, timerVars,
                 backoffTimers, att, nAtt, scriptProcessorRef,
                 audioContextInRef, audioContextOutRef, sourcesRef,
                 nextStartTimeRef, outClock, decoding, streamVars>>
  /\ UNCHANGED <<page, envVars>>

\* The log a render makes of the log prev and the records queued, each
\* update being prev => [...prev, ...records], with the records put in
\* place of the log.
replaceUpdates(prev, queued) == queued

\* The log a render makes of the log prev and the records queued, each
\* update being prev => [...prev, ...records] (App.tsx:184-188).
applyUpdates(prev, queued) == prev \o queued

\* React renders the component in a task of its own: every setStatus and
\* every queued update of the record log is applied and the page is drawn
\* from the result.  The effects of the render before it are run first;
\* the effect of this render (App.tsx:44-49) is run later, as Effect.
Render ==
  /\ pendingRecords # <<>> \/ page # status
  /\ historyRef' = transcriptions
  /\ transcriptions' = applyUpdates(transcriptions, pendingRecords)
  /\ pendingRecords' = <<>>
  /\ page' = status
  /\ UNCHANGED <<currentInputTransRef, currentOutputTransRef, turnLog,
                 bufFrom>>
  /\ UNCHANGED <<ctlVars, audVars, envVars>>

\* The effect of a render that changed the record log runs
\* (App.tsx:44-49): historyRef.current = transcriptions.
Effect ==
  /\ historyRef # transcriptions
  /\ historyRef' = transcriptions
  /\ UNCHANGED <<currentInputTransRef, currentOutputTransRef, transcriptions,
                 pendingRecords, turnLog, bufFrom>>
  /\ UNCHANGED <<ctlVars, page, audVars, envVars>>

Next ==
  \/ Start
  \/ \E site \in ThrowSites, err \in Errors : StartThrows(site, err)
  \/ DismissError
  \/ Stop
  \/ \E a \in Attempts : MediaResolves(a)
  \/ \E a \in Attempts, err \in Errors : MediaRejects(a, err)
  \/ \E a \in Attempts : ConnectRejects(a)
  \/ \E a \in Attempts : HandleOpens(a)
  \/ \E a \in Attempts : PromiseResolves(a)
  \/ RotationTimerFires
  \/ \E b \in Attempts : BackoffFires(b)
  \/ \E a \in Attempts : CloseEvent(a)
  \/ \E a \in Attempts : RemoteClose(a)
  \/ \E a \in Attempts : HandleError(a)
  \/ Capture
  \/ CaptureQueued
  \/ Render

Spec == Init /\ [][Next]_vars

\* The controller alone, over runs of at most MaxShort attempts: the
\* program without the capture callback.
NextControl ==
  \/ Start /\ nAtt' <= MaxShort
  \/ (\E site \in ThrowSites, err \in Errors : StartThrows(site, err))
       /\ nAtt' <= MaxShort
  \/ DismissError /\ nAtt' <= MaxShort
  \/ Stop /\ nAtt' <= MaxShort
  \/ (\E a \in Attempts : MediaResolves(a)) /\ nAtt' <= MaxShort
  \/ (\E a \in Attempts, err \in Errors : MediaRejects(a, err))
       /\ nAtt' <= MaxShort
  \/ (\E a \in Attempts : ConnectRejects(a)) /\ nAtt' <= MaxShort
  \/ (\E a \in Attempts : HandleOpens(a)) /\ nAtt' <= MaxShort
  \/ (\E a \in Attempts : PromiseResolves(a)) /\ nAtt' <= MaxShort
  \/ RotationTimerFires /\ nAtt' <= MaxShort
  \/ (\E b \in Attempts : BackoffFires(b)) /\ nAtt' <= MaxShort
  \/ (\E a \in Attempts : CloseEvent(a)) /\ nAtt' <= MaxShort
  \/ (\E a \in Attempts : RemoteClose(a)) /\ nAtt' <= MaxShort
  \/ (\E a \in Attempts : HandleError(a)) /\ nAtt' <= MaxShort
  \/ Render /\ nAtt' <= MaxShort

SpecControl == Init /\ [][NextControl]_vars

NextCapture ==
  \/ Start /\ nAtt' <= MaxShort
  \/ Stop
  \/ \E a \in Attempts : MediaResolves(a)
  \/ \E a \in Attempts : HandleOpens(a)
  \/ \E a \in Attempts : PromiseResolves(a)
  \/ RotationTimerFires /\ nAtt' <= MaxShort
  \/ (\E a \in Attempts : CloseEvent(a)) /\ nAtt' <= MaxShort
  \/ (\E a \in Attempts : RemoteClose(a)) /\ nAtt' <= MaxShort
  \/ Capture
  \/ CaptureQueued
  \/ Render

\* The capture callback while conversations are started, rotated,
\* recovered and stopped, every open attempt succeeding.
SpecCapture == Init /\ [][NextCapture]_vars

\* ------------------------------------------------- the onmessage handler
Max(x, y) == IF x >= y THEN x ELSE y

\* The characters String.prototype.trim strips: the WhiteSpace and the
\* LineTerminator code points of ECMAScript.  Those that cannot be written
\* in a string here go by their names: VT is U+000B, NBSP U+00A0, ZWNBSP
\* U+FEFF, LS U+2028, PS U+2029, and USP any other space separator.
WhiteSpace ==
  {" ", "\t", "\n", "\f", "\r", "VT", "NBSP", "ZWNBSP", "LS", "PS", "USP"}

\* String.prototype.trim on a sequence of characters.
RECURSIVE TrimLeft(_)
TrimLeft(t) ==
  IF t # <<>> /\ Head(t) \in WhiteSpace THEN TrimLeft(Tail(t)) ELSE t

RECURSIVE TrimRight(_)
TrimRight(t) ==
  IF t # <<>> /\ t[Len(t)] \in WhiteSpace
    THEN TrimRight(SubSeq(t, 1, Len(t) - 1))
    ELSE t

Trim(t) == TrimRight(TrimLeft(t))

\* String(undefined), character by character.
Undefined == <<"u", "n", "d", "e", "f", "i", "n", "e", "d">>

\* The text a transcription part carries: none when it has no text field.
textOf(part) == IF part = NoTextField THEN <<>> ELSE part

\* if (part) cur += part.text: an absent part leaves cur as it is, as
\* appending the empty string does; a part without a text appends the
\* string of undefined.
Append2(cur, part) ==
  IF part = NoText THEN cur
  ELSE IF part = NoTextField THEN cur \o Undefined
  ELSE cur \o part

\* The records setTranscriptions appends at turnComplete (App.tsx:183-189).
TurnRecords(uText, mText) ==
  (IF uText # <<>> THEN <<[type |-> "user", text |-> uText]>> ELSE <<>>)
  \o (IF mText # <<>> THEN <<[type |-> "model", text |-> mText]>> ELSE <<>>)

\* Lines 177-192 of onmessage: the transcript assembler, for message m.
\* setTranscriptions queues its update: the records reach the log at the
\* next render.
textPart(m) ==
  LET inBuf == Append2(currentInputTransRef, m.inTxt)
      outBuf == Append2(currentOutputTransRef, m.outTxt)
      k == Len(turnLog)
      heard == [turnLog EXCEPT ![k].in = @ \o textOf(m.inTxt),
                               ![k].out = @ \o textOf(m.outTxt)]
  IN /\ turnLog' = IF m.turnComplete THEN Append(heard, NoTurn) ELSE heard
     /\ IF m.turnComplete
          THEN /\ pendingRecords' =
                    pendingRecords \o TurnRecords(Trim(inBuf), Trim(outBuf))
               /\ currentInputTransRef' = <<>>
               /\ currentOutputTransRef' = <<>>
          ELSE /\ currentInputTransRef' = inBuf
               /\ currentOutputTransRef' = outBuf
               /\ UNCHANGED pendingRecords
     /\ UNCHANGED <<transcriptions, historyRef>>

\* The handles with text in the buffers once the text part of message m of
\* handle a has run.
textFrom(a, m) ==
  IF m.turnComplete THEN {}
  ELSE IF m.inTxt # NoText \/ m.outTxt # NoText THEN bufFrom \cup {a}
  ELSE bufFrom

\* decodeAudioData(decode(base64Audio), ctx, 24000, 1) of utils/audio-utils:
\* an asynchronous decode whose result is a buffer of the duration the
\* message's audio part encodes, or BadAudio when the decode fails.
decodeAudioData(m) == m.audio

\* The messages a run draws from: audio of a decoded duration, malformed
\* or none; an input part with one character, with no text or none; an
\* output part likewise.
Messages ==
  [audio : {NoAudio, BadAudio} \cup 0..MaxDur,
   inTxt : {NoText, NoTextField, <<" ">>, <<"a">>},
   outTxt : {NoText, NoTextField, <<"\n">>, <<"b">>},
   turnComplete : BOOLEAN]

\* onmessage of handle a up to its await (App.tsx:161-167): with an audio
\* part and an output context it raises nextStartTimeRef to the clock and
\* suspends in decodeAudioData; otherwise it runs the text part at once.
OnMessage(a, m) ==
  /\ att[a].hs \in {"open", "closing"}
  /\ nMsg < MaxMsgs
  /\ nMsg' = nMsg + 1
  /\ IF m.audio # NoAudio /\ audioContextOutRef
       THEN /\ nextStartTimeRef' = Max(nextStartTimeRef, outClock)
            /\ decoding' = decoding \cup {[id |-> nMsg + 1, h |-> a, msg |-> m,
                                            frozen |-> Running]}
            /\ UNCHANGED txtVars
       ELSE /\ textPart(m)
            /\ bufFrom' = textFrom(a, m)
            /\ UNCHANGED <<nextStartTimeRef, decoding>>
  /\ UNCHANGED <<ctlVars, sourcesRef, outClock, started>>
  /\ UNCHANGED <<page, envVars>>

\* ctx.currentTime of the output context the suspended call d holds.
currentTime(d) == IF d.frozen = Running THEN outClock ELSE d.frozen

\* decodeAudioData resolves for the suspended call d (App.tsx:168-192): the
\* buffer is scheduled at nextStartTimeRef on the context the call holds,
\* nextStartTimeRef advances by its duration, then the text part of the
\* same message runs.
DecodeDone(d) ==
  /\ d \in decoding
  /\ decodeAudioData(d.msg) # BadAudio
  /\ decoding' = decoding \ {d}
  /\ started' = [started EXCEPT ![d.id] =
                   [at |-> nextStartTimeRef, dur |-> decodeAudioData(d.msg),
                    playFrom |-> Max(nextStartTimeRef, currentTime(d)),
                    live |-> d.frozen = Running]]
  /\ nextStartTimeRef' = nextStartTimeRef + decodeAudioData(d.msg)
  /\ sourcesRef' = sourcesRef \cup {d.id}
  /\ textPart(d.msg)
  /\ bufFrom' = textFrom(d.h, d.msg)
  /\ UNCHANGED <<ctlVars, outClock, nMsg>>
  /\ UNCHANGED <<page, envVars>>

\* decodeAudioData fails for the suspended call d: the await throws, no
\* try block encloses it, and the onmessage call ends there.
DecodeFails(d) ==
  /\ d \in decoding
  /\ decodeAudioData(d.msg) = BadAudio
  /\ decoding' = decoding \ {d}
  /\ UNCHANGED <<ctlVars, txtVars, nextStartTimeRef, sourcesRef, outClock,
                 started, nMsg>>
  /\ UNCHANGED <<page, envVars>>

\* source.onended: playback of buffer i is over.  A source started on a
\* closed context never plays and never ends.
SourceEnds(i) ==
  /\ i \in sourcesRef
  /\ started[i].live
  /\ outClock >= started[i].playFrom + started[i].dur
  /\ sourcesRef' = sourcesRef \ {i}
  /\ UNCHANGED <<ctlVars, txtVars, nextStartTimeRef, outClock, decoding,
                 started, nMsg>>
  /\ UNCHANGED <<page, envVars>>

\* The output context's clock advances.
Tick ==
  /\ audioContextOutRef
  /\ outClock < MaxClock
  /\ outClock' = outClock + 1
  /\ UNCHANGED <<ctlVars, txtVars, nextStartTimeRef, sourcesRef, decoding,
                 started, nMsg>>
  /\ UNCHANGED <<page, envVars>>

\* The state after start(), getUserMedia, onopen and the promise's then:
\* handle 1 is open and held, nothing received yet.
ActiveInit ==
  /\ status = ActiveStatus
  /\ page = ActiveStatus
  /\ sessionRef = 1
  /\ isUserInitiatedStop = FALSE
  /\ rotationTimerRef = 1
  /\ rotationTimers = {[id |-> 1, delay |-> SESSION_MAX_DURATION]}
  /\ backoffTimers = {}
  /\ att = [a \in Attempts |->
              IF a = 1
                THEN [UnusedAttempt EXCEPT !.pc = "resolved", !.hs = "open",
                                           !.trigger = "start",
                                           !.context = rotationContext(FALSE)]
                ELSE UnusedAttempt]
  /\ nAtt = 1
  /\ scriptProcessorRef = TRUE
  /\ audioContextInRef = TRUE
  /\ audioContextOutRef = TRUE
  /\ audioProcessQueued = FALSE
  /\ lastSend = [to |-> NoSession, live |-> FALSE, rotating |-> FALSE,
                 toPre |-> FALSE, stopped |-> FALSE, dropped |-> FALSE]
  /\ currentInputTransRef = <<>>
  /\ currentOutputTransRef = <<>>
  /\ transcriptions = <<>>
  /\ pendingRecords = <<>>
  /\ historyRef = <<>>
  /\ turnLog = <<NoTurn>>
  /\ bufFrom = {}
  /\ nextStartTimeRef = 0
  /\ sourcesRef = {}
  /\ outClock = 0
  /\ decoding = {}
  /\ started = [i \in Msgs |-> NotStarted]
  /\ nMsg = 0
  /\ sourceLang = "English"
  /\ targetLang = "Chinese"
  /\ throwsAt = NoThrow

\* Messages with text, a turn completion or both; those of the model's
\* speech (output text, no input text) with or without an audio part.
AssemblerMessages ==
  {m \in Messages : \/ m.audio = NoAudio
                    \/ m.audio = 1 /\ m.inTxt = NoText}

\* Messages that carry audio only.
AudioMessages ==
  {m \in Messages : /\ m.audio >= 0
                    /\ m.inTxt = NoText /\ m.outTxt = NoText
                    /\ ~m.turnComplete}

NextAssembler ==
  \/ \E a \in Attempts, m \in AssemblerMessages : OnMessage(a, m)
  \/ \E d \in decoding : DecodeDone(d)
  \/ Render
  \/ Effect

\* The inbound text stream of one open handle, audio decodes in between.
SpecAssembler == ActiveInit /\ [][NextAssembler]_vars

NextPlayback ==
  \/ \E a \in Attempts, m \in AudioMessages : OnMessage(a, m)
  \/ \E d \in decoding : DecodeDone(d)
  \/ \E i \in Msgs : SourceEnds(i)
  \/ Tick

\* The inbound audio stream of one open handle and the output clock.
SpecPlayback == ActiveInit /\ [][NextPlayback]_vars

\* Messages without an audio part, every part of them with its text.
TextMessages ==
  {m \in Messages : /\ m.audio = NoAudio
                    /\ m.inTxt # NoTextField /\ m.outTxt # NoTextField}

NextHandoff ==
  \/ RotationTimerFires
  \/ \E a \in Attempts : MediaResolves(a)
  \/ \E a \in Attempts : HandleOpens(a)
  \/ \E a \in Attempts : PromiseResolves(a)
  \/ \E a \in Attempts : CloseEvent(a)
  \/ \E a \in Attempts, m \in TextMessages : OnMessage(a, m)
  \/ Render
  \/ Effect

\* Rotations of an open handle while text arrives on every open handle.
SpecHandoff == ActiveInit /\ [][NextHandoff]_vars

NextTeardown ==
  \/ \E a \in Attempts, m \in AudioMessages : OnMessage(a, m)
  \/ \E d \in decoding : DecodeDone(d)
  \/ \E i \in Msgs : SourceEnds(i)
  \/ Tick
  \/ Stop
  \/ Start /\ nAtt' <= MaxShort
  \/ \E a \in Attempts : CloseEvent(a)
  \/ Render

\* The inbound audio stream of one open handle, stop() and the start()
\* after it.
SpecTeardown == ActiveInit /\ [][NextTeardown]_vars

\* The messages of the assembler, and those of the model's speech with an
\* audio part that fails to decode.
MalformedMessages ==
  AssemblerMessages
    \cup {m \in Messages : m.audio = BadAudio /\ m.inTxt = NoText}

NextMalformed ==
  \/ \E a \in Attempts, m \in MalformedMessages : OnMessage(a, m)
  \/ \E d \in decoding : DecodeDone(d)
  \/ \E d \in decoding : DecodeFails(d)
  \/ Render
  \/ Effect

\* The inbound stream of one open handle with malformed audio parts in it.
SpecMalformed == ActiveInit /\ [][NextMalformed]_vars

\* Messages that complete a turn: one character of input text and one of
\* output text, with the turn completion.
SpeakerMessages ==
  {m \in TextMessages : /\ m.inTxt = <<"a">> /\ m.outTxt = <<"b">>
                        /\ m.turnComplete}

NextConversation ==
  \/ Start /\ nAtt' <= MaxShort
  \/ Stop
  \/ \E a \in Attempts : MediaResolves(a)
  \/ \E a \in Attempts : HandleOpens(a)
  \/ \E a \in Attempts : PromiseResolves(a)
  \/ RotationTimerFires /\ nAtt' <= MaxShort
  \/ (\E a \in Attempts : a = sessionRef /\ RemoteClose(a)) /\ nAtt' <= MaxShort
  \/ (\E a \in Attempts : CloseEvent(a)) /\ nAtt' <= MaxShort
  \/ (\E a \in Attempts, m \in SpeakerMessages : a = sessionRef /\ OnMessage(a, m))
       /\ nMsg' <= MaxSpoken
  \/ Render
  \/ Effect

\* Conversations started, rotated, recovered (the held handle is closed by
\* the remote end) and stopped while turns complete on the held handle,
\* over runs of at most MaxShort attempts and MaxSpoken messages.
SpecConversation == Init /\ [][NextConversation]_vars

\* A log of n records, each with a text of its own: record i has i
\* characters, of type user when i is odd and model when it is even.
LogOf(n) ==
  [i \in 1..n |-> [type |-> IF i % 2 = 1 THEN "user" ELSE "model",
                   text |-> [j \in 1..i |-> IF i % 2 = 1 THEN "a" ELSE "b"]]]

\* The log lengths a run starts from: no record, and as many as the slice
\* keeps or more.
LogSizes == {0} \cup ContextWindow..MaxLog

\* The Rotation Timer the last handle of the earlier conversations armed
\* (App.tsx:133): stop() cleared the timeout and left its id in the ref.
EarlierTimer == MaxAttempts + 1

\* Idle after earlier conversations that left a log of up to MaxLog
\* records; every turn was completed.
LogInit ==
  \E n \in LogSizes :
    /\ status = IdleStatus
    /\ page = IdleStatus
    /\ sessionRef = NoSession
    /\ isUserInitiatedStop = TRUE
    /\ rotationTimerRef = (IF n = 0 THEN 0 ELSE EarlierTimer)
    /\ rotationTimers = {}
    /\ backoffTimers = {}
    /\ att = [a \in Attempts |-> UnusedAttempt]
    /\ nAtt = 0
    /\ scriptProcessorRef = FALSE
    /\ audioContextInRef = FALSE
    /\ audioContextOutRef = FALSE
    /\ audioProcessQueued = FALSE
    /\ lastSend = [to |-> NoSession, live |-> FALSE, rotating |-> FALSE,
                   toPre |-> FALSE, stopped |-> FALSE, dropped |-> FALSE]
    /\ currentInputTransRef = <<>>
    /\ currentOutputTransRef = <<>>
    /\ transcriptions = LogOf(n)
    /\ pendingRecords = <<>>
    /\ historyRef = LogOf(n)
    /\ turnLog = <<NoTurn>>
    /\ bufFrom = {}
    /\ nextStartTimeRef = 0
    /\ sourcesRef = {}
    /\ outClock = 0
    /\ decoding = {}
    /\ started = <<>>
    /\ nMsg = 0
    /\ sourceLang = "English"
    /\ targetLang = "Chinese"
    /\ throwsAt = NoThrow

\* A message that completes a turn of one input character.
ClosingMessages ==
  {m \in TextMessages : m.inTxt = <<"a">> /\ m.outTxt = NoText /\ m.turnComplete}

NextContext ==
  \/ Start
  \/ \E a \in Attempts : MediaResolves(a)
  \/ \E a \in Attempts, err \in Errors : MediaRejects(a, err)
  \/ \E a \in Attempts : HandleOpens(a)
  \/ \E a \in Attempts : PromiseResolves(a)
  \/ RotationTimerFires
  \/ \E b \in Attempts : BackoffFires(b)
  \/ \E a \in Attempts : a = sessionRef /\ RemoteClose(a)
  \/ \E a \in Attempts : CloseEvent(a)
  \/ (\E a \in Attempts, m \in ClosingMessages : a = sessionRef /\ OnMessage(a, m))
       /\ nMsg' <= MaxSpoken
  \/ Render
  \/ Effect

\* One character of input text, with or without the turn completion.
PartialMessages ==
  {m \in TextMessages : m.inTxt = <<"a">> /\ m.outTxt = NoText}

NextRestart ==
  \/ Start /\ nAtt' <= MaxShort
  \/ Stop
  \/ \E a \in Attempts : MediaResolves(a)
  \/ \E a \in Attempts : HandleOpens(a)
  \/ \E a \in Attempts : PromiseResolves(a)
  \/ \E a \in Attempts : CloseEvent(a)
  \/ (\E a \in Attempts, m \in PartialMessages : a = sessionRef /\ OnMessage(a, m))
       /\ nMsg' <= MaxSpoken
  \/ Render
  \/ Effect

\* Conversations started and stopped by the user while partial input text
\* arrives and turns complete on the held handle.
SpecRestart == Init /\ [][NextRestart]_vars

\* Three of the ten values of the enum SupportedLanguage.
SupportedLanguage == {"Chinese", "English", "Japanese"}

\* The user picks another speaker language: the select is disabled while
\* status.isActive (App.tsx:321-326).
SelectSourceLang(lang) ==
  /\ ~page.isActive
  /\ lang # sourceLang
  /\ sourceLang' = lang
  /\ flushPassiveEffects
  /\ UNCHANGED <<ctlVars, page, clickVars, audVars, targetLang, throwsAt>>

\* The user picks another target language: the select is disabled while
\* status.isActive (App.tsx:344-349).
SelectTargetLang(lang) ==
  /\ ~page.isActive
  /\ lang # targetLang
  /\ targetLang' = lang
  /\ flushPassiveEffects
  /\ UNCHANGED <<ctlVars, page, clickVars, audVars, sourceLang, throwsAt>>

NextSettings ==
  \/ Start /\ nAtt' <= MaxShort
  \/ Stop
  \/ \E a \in Attempts : MediaResolves(a)
  \/ \E a \in Attempts, err \in Errors : MediaRejects(a, err)
  \/ \E a \in Attempts : HandleOpens(a)
  \/ \E a \in Attempts : PromiseResolves(a)
  \/ \E lang \in SupportedLanguage : SelectSourceLang(lang)
  \/ \E lang \in SupportedLanguage : SelectTargetLang(lang)
  \/ Render

\* The user starts, stops and picks languages while attempts connect.
SpecSettings == Init /\ [][NextSettings]_vars

\* A conversation that follows earlier ones: started, started again after
\* a failed initial connect, rotated, recovered and retried, with more
\* records arriving on the held handle at any point.
SpecContext == LogInit /\ [][NextContext]_vars

\* ------------------------------------------------------------------ claims
Used == 1..nAtt

\* No stop() so far: the flag is down and start() was called once only.
NeverStopped ==
  /\ ~isUserInitiatedStop
  /\ \A a \in Used : att[a].trigger = "start" => a = 1

\* The scenario of C1: start(), the handle opens and is held, the Rotation
\* Timer fires once, the replacement opens and is swapped in; no stop(), no
\* failure and no closure by the remote end anywhere.
RotationScenario ==
  /\ nAtt >= 2
  /\ NeverStopped
  /\ att[1].trigger = "start" /\ att[1].pc = "resolved"
  /\ att[2].trigger = "timer" /\ att[2].pre = 1 /\ att[2].pc = "resolved"
  /\ \A a \in Used : /\ att[a].closeCause \in {"none", "retire"}
                     /\ att[a].pc \notin {"failed", "retried"}
                     /\ att[a].trigger = "timer" => a = 2
  /\ rotationTimers # {}

\* C1: after one rotation (Rotation Timer fired once while Active, the
\* replacement opened), the replacement is the send target, close() has been
\* called exactly once in total, on the pre-rotation handle, and no further
\* handle is opened or closed before the next Rotation Timer deadline.
C1_OneRotationOneClose ==
  RotationScenario =>
    /\ sessionRef = 2
    /\ att[1].closeCalls = 1
    /\ \A a \in Used : a # 1 => att[a].closeCalls = 0
    /\ nAtt = 2

\* C2: the `closed` event of a retiring handle closed on purpose after the
\* swap is never taken for an unexpected closure: it starts no open attempt.
C2_RetireCloseStartsNoRecovery ==
  \A a \in Used : att[a].trigger # "retire"

\* C3: when the handle held in sessionRef emits `closed` without having been
\* closed by the controller, and stop() has not been called, that same step
\* sets the reconnecting flag and invokes startTranslation(true).
C3_UnexpectedCloseStartsRecovery ==
  [][\A a \in Attempts :
       ( /\ a = sessionRef
         /\ ~isUserInitiatedStop
         /\ att[a].hs # "closed" /\ att'[a].hs = "closed"
         /\ att'[a].closeCause \in {"remote", "error"} )
       => /\ status'.isReconnecting
          /\ nAtt' = nAtt + 1
          /\ att'[nAtt'].isRotation
          /\ att'[nAtt'].pc = "media"
          /\ att'[nAtt'].trigger = att'[a].closeCause]_vars

\* C3 witness: a recovery attempt started by the remote closure of the
\* handle that was held as the send target.
C3_Witness ==
  \E a \in Used : /\ att[a].trigger = "remote"
                  /\ att[a].pre # NoSession
                  /\ att[att[a].pre].hs = "closed"
                  /\ att[a].pc = "media"
                  /\ status.isReconnecting

\* C4: from a stop() to the next start() the state is Idle: the three flags
\* stay down, whatever callbacks of the attempts that were in flight at the
\* stop() arrive afterwards.
C4_StoppedStaysIdle ==
  isUserInitiatedStop =>
    (~status.isActive /\ ~status.isConnecting /\ ~status.isReconnecting)

\* C5: a chunk sent while a rotation is in flight (begun, not yet swapped)
\* is delivered to the pre-rotation handle.
C5_RotationSendsToOldHandle ==
  (lastSend.to # NoSession /\ lastSend.rotating) =>
    (lastSend.toPre /\ lastSend.live)

\* C6: every sendAudio call is made on a handle whose socket is open, never
\* on a handle that has already closed.
C6_SendsOnlyToOpenHandle ==
  lastSend.to # NoSession => lastSend.live

\* The records the claim expects of one completed turn.
ExpectedOfTurn(t) ==
  LET u == Trim(t.in)
      m == Trim(t.out)
  IN IF u # <<>> /\ m # <<>>
       THEN <<[type |-> "user", text |-> u], [type |-> "model", text |-> m]>>
       ELSE IF u # <<>> THEN <<[type |-> "user", text |-> u]>>
       ELSE IF m # <<>> THEN <<[type |-> "model", text |-> m]>>
       ELSE <<>>

RECURSIVE ExpectedLog(_)
ExpectedLog(turns) ==
  IF turns = <<>> THEN <<>>
  ELSE ExpectedLog(SubSeq(turns, 1, Len(turns) - 1))
         \o ExpectedOfTurn(turns[Len(turns)])

\* The record log with the records appended since the last render.
Log == transcriptions \o pendingRecords

\* C7: every completed turn has appended, in order, a `user` record with
\* the trimmed concatenation of its input texts if that is not empty, then a
\* `model` record with that of its output texts if that is not empty; and
\* the two buffers hold the texts of the turn in progress only, so they are
\* empty after each turn completion.
C7_TurnRecords ==
  /\ Log = ExpectedLog(SubSeq(turnLog, 1, Len(turnLog) - 1))
  /\ currentInputTransRef = turnLog[Len(turnLog)].in
  /\ currentOutputTransRef = turnLog[Len(turnLog)].out

\* C8: the start times handed to the output device are ordered as the
\* buffers arrived, each at or after the end of the one before it.
C8_StartsInArrivalOrder ==
  \A i, j \in Msgs :
    (i < j /\ started[i].at >= 0 /\ started[j].at >= 0)
      => started[j].at >= started[i].at + started[i].dur

\* C9: the step in which the initial open attempt of start() fails makes
\* the state Idle with the error recorded; and from then on, while start()
\* makes no other attempt, the three flags stay down and no further open
\* attempt is issued.
C9_InitialFailureIsIdle ==
  [][( /\ nAtt' >= 1
       /\ att'[1].pc = "failed"
       /\ \A a \in 1..nAtt' : att'[a].trigger = "start" => a = 1 )
     => /\ ~status'.isActive /\ ~status'.isConnecting
        /\ ~status'.isReconnecting
        /\ att[1].pc # "failed" => status'.error # "null"
        /\ nAtt' = 1]_vars

\* C10: when the replacement handle of a timer rotation over a held handle
\* has failed to open, a retry is pending on the 5 s backoff timer (until
\* that timer fires).
C10_FailedRotationRetries ==
  \A a \in Used :
    (att[a].trigger = "timer" /\ att[a].pre # NoSession /\ att[a].pc = "failed")
      => a \in backoffTimers

\* C11: from a stop() to the next start() no Rotation Timer is armed or
\* pending and no open attempt is issued: no startTranslation call is made
\* and no attempt that was in flight at the stop() goes on to connect.
C11_StoppedArmsAndOpensNothing ==
  [][(isUserInitiatedStop /\ isUserInitiatedStop') =>
       /\ rotationTimers' = {}
       /\ nAtt' = nAtt
       /\ \A a \in Attempts :
            att'[a].hs = "connecting" => att[a].hs = "connecting"]_vars

\* C12: no sendRealtimeInput call is made between a stop() and the next
\* start(): every call finds the stop flag down.
C12_NoSendWhileStopped ==
  lastSend.to # NoSession => ~lastSend.stopped

\* C12 witness: after stop(), with a handle that opened later held in
\* sessionRef, a chunk was captured and was not sent.
C12_Witness ==
  /\ isUserInitiatedStop
  /\ sessionRef # NoSession
  /\ lastSend.dropped

\* Attempt a belongs to an earlier conversation: start() was called after it.
Later(a) == \E s \in Used : s > a /\ att[s].trigger = "start"

\* In this step something left over from attempt a comes due: the `closed`
\* event of its handle, which stop() had closed; the backoff retry its catch
\* block had scheduled; or the Rotation Timer its onopen had armed.
LeftoverFires(a) ==
  \/ att[a].closeCause = "stop" /\ att[a].hs = "closing" /\ att'[a].hs = "closed"
  \/ a \in backoffTimers /\ a \notin backoffTimers'
  \/ \E t \in rotationTimers : t.id = a /\ t \notin rotationTimers'

\* C13: nothing left over from a conversation that stop() ended causes a
\* rotation or a reconnect attempt in the conversation a later start() began:
\* when it comes due, no startTranslation call is made.
C13_LeftoversStartNothing ==
  [][\A a \in Attempts : (Later(a) /\ LeftoverFires(a)) => nAtt' = nAtt]_vars

\* C14: exactly one of idle, connecting, active, reconnecting holds: at most
\* one of the flags isConnecting, isActive, isReconnecting is true.
C14_OneStateHolds ==
  Cardinality({f \in {"isConnecting", "isActive", "isReconnecting"} :
                 status[f]}) <= 1

\* C15: partial text of one handle is never combined with partial text of
\* another: the two turn buffers never hold text of more than one handle.
C15_BuffersOfOneHandle ==
  Cardinality(bufFrom) <= 1

\* C16: from a stop() to the next start() no playback buffer is scheduled
\* and the next start time is zero, also when a decode was still under way
\* at the stop().
C16_StoppedQueueIsEmpty ==
  isUserInitiatedStop => (sourcesRef = {} /\ nextStartTimeRef = 0)

\* C17: at most one Rotation Timer is pending at any time; the step in which
\* a handle opens (initial, rotation or recovery) leaves exactly the timer
\* that handle armed, set SESSION_MAX_DURATION after the open, whatever
\* timer was pending before.
C17_OneRotationTimer ==
  [][/\ Cardinality(rotationTimers') <= 1
     /\ \A a \in Attempts :
          (att[a].hs = "connecting" /\ att'[a].hs = "open")
            => rotationTimers' = {[id |-> a, delay |-> SESSION_MAX_DURATION]}]_vars

\* C17 witness: handle 1 opened and armed its timer; it closed unexpectedly
\* and the recovery handle 2 opened while that timer was still pending; the
\* one pending timer is that of handle 2.
C17_Witness ==
  /\ NeverStopped
  /\ nAtt = 2
  /\ att[1].pc = "resolved"
  /\ att[2].trigger = "remote" /\ att[2].hs = "open"
  /\ rotationTimers = {[id |-> 2, delay |-> SESSION_MAX_DURATION]}

\* Attempt a is a recovery: startTranslation(true) called by onclose when the
\* held handle closed unexpectedly.
Recovery(a) ==
  att[a].trigger \in {"remote", "error"} /\ att[a].pre # NoSession

\* C18: while recovering from an unexpected closure, with no stop(), the
\* step in which the replacement open fails leaves the reconnecting flag set
\* and a retry pending on the backoff timer; the step in which the
\* replacement opens makes the state Active and arms the Rotation Timer, and
\* the step that confirms it makes the new handle the send target.
C18_RecoveryOutcome ==
  [][\A a \in Attempts :
       (Recovery(a) /\ ~isUserInitiatedStop) =>
         /\ (att[a].pc \in {"media", "connecting"} /\ att'[a].pc = "failed")
              => (status'.isReconnecting /\ a \in backoffTimers')
         /\ (att[a].hs = "connecting" /\ att'[a].hs = "open")
              => (status' = ActiveStatus /\ \E t \in rotationTimers' : t.id = a)
         /\ (att[a].pc = "opened" /\ att'[a].pc = "resolved")
              => sessionRef' = a]_vars

\* A handle that was held as the send target has closed unexpectedly.
UnexpectedClosure ==
  \E a \in Used : /\ att[a].closeCause \in {"remote", "error"}
                  /\ att[a].pc = "resolved"

\* Something is under way that ends in an open attempt or an opened handle:
\* a startTranslation call or its handle, a socket that has yet to deliver
\* its `closed` event, a backoff retry or a Rotation Timer.
RecoveryPending ==
  \/ \E a \in Used : att[a].pc \in {"media", "connecting", "opened"}
  \/ \E a \in Used : att[a].hs = "closing"
  \/ backoffTimers # {}
  \/ rotationTimers # {}

\* C19: after an unexpected closure, with no stop(), the system is never
\* left without an open handle as send target and with nothing pending that
\* would open one; so with fair scheduling, once open attempts succeed, it
\* reaches Active with an open handle as the send target.
C19_RecoveryNeverStalls ==
  (NeverStopped /\ UnexpectedClosure) =>
    \/ /\ status.isActive
       /\ sessionRef # NoSession
       /\ att[sessionRef].hs = "open"
    \/ RecoveryPending

\* C20: the step in which the decode of a message's audio part fails drops
\* that chunk only: the state stays Active, the handle stays as it was, the
\* playback queue is untouched, and the text and turn completion delivered
\* with the chunk are processed as those of any other message.
C20_DecodeFailureDropsChunkOnly ==
  [][\A d \in decoding :
       (d \notin decoding' /\ d.msg.audio = BadAudio) =>
         LET inBuf == Append2(currentInputTransRef, d.msg.inTxt)
             outBuf == Append2(currentOutputTransRef, d.msg.outTxt)
         IN /\ status' = status /\ status.isActive
            /\ att'[d.h].hs = att[d.h].hs
            /\ sourcesRef' = sourcesRef
            /\ nextStartTimeRef' = nextStartTimeRef
            /\ IF d.msg.turnComplete
                 THEN /\ pendingRecords' =
                           pendingRecords \o TurnRecords(Trim(inBuf), Trim(outBuf))
                      /\ currentInputTransRef' = <<>>
                      /\ currentOutputTransRef' = <<>>
                 ELSE /\ pendingRecords' = pendingRecords
                      /\ currentInputTransRef' = inBuf
                      /\ currentOutputTransRef' = outBuf]_vars

\* s is an initial segment of t.
IsPrefix(s, t) == Len(s) <= Len(t) /\ SubSeq(t, 1, Len(s)) = s

\* C21: the record log is append-only: every step leaves the records it
\* held in place and in order, and adds records, at the end, only when it
\* handles a turn completion; the log a render shows is the log with the
\* records appended since.
C21_LogAppendOnly ==
  [][/\ IsPrefix(Log, Log')
     /\ Log' # Log => Len(turnLog') = Len(turnLog) + 1
     /\ IsPrefix(transcriptions, transcriptions')
     /\ transcriptions' # transcriptions => transcriptions' = Log]_vars

\* C21 witness: a turn of a first conversation has left its two records,
\* its handle has closed after stop(), start() has been called again, and
\* the records are in the log a render has shown.
C21_Witness ==
  /\ nAtt = 2
  /\ att[1].closeCause = "stop" /\ att[1].hs = "closed"
  /\ att[2].trigger = "start" /\ att[2].pc = "media"
  /\ transcriptions = <<[type |-> "user", text |-> <<"a">>],
                        [type |-> "model", text |-> <<"b">>]>>

\* C22: the context handed to connect by an attempt made by start() is the
\* new-meeting framing with no record; the context handed over by an attempt
\* made by a rotation, a recovery or a retry is the continuation framing
\* followed by one line per record for exactly the last min(15, n) records
\* of the n-record log as it is when connect is called, in log order.
C22_ContextOfNewHandle ==
  [][\A a \in Attempts :
       (att[a].pc = "media" /\ att'[a].pc = "connecting") =>
         LET n == Len(Log)
             k == IF n < 15 THEN n ELSE 15
             c == att'[a].context
         IN IF att[a].trigger = "start"
              THEN c.framing = "new" /\ c.history = <<>>
              ELSE /\ c.framing = "rotation"
                   /\ Len(c.history) = k
                   /\ \A i \in 1..k :
                        /\ c.history[i].text = Log[n - k + i].text
                        /\ c.history[i].label = "Input"
                             <=> Log[n - k + i].type = "user"
                        /\ c.history[i].label = "Translation"
                             <=> Log[n - k + i].type = "model"]_vars

\* C23: the source and the target language change only while the state is
\* Idle: while the state is Connecting, Active or Reconnecting no step
\* changes either of them.
C23_LanguageChangesOnlyWhileIdle ==
  [][(status.isConnecting \/ status.isActive \/ status.isReconnecting)
       => (sourceLang' = sourceLang /\ targetLang' = targetLang)]_vars

\* The handles whose socket is open.
OpenHandles == {a \in Used : att[a].hs = "open"}

\* An open attempt is in flight: a startTranslation call waits for the
\* microphone, for its socket or for its promise, or waits to be retried.
OpenInFlight ==
  \/ \E a \in Used : att[a].pc \in {"media", "connecting", "opened"}
  \/ backoffTimers # {}

\* No socket has closed with its close event still to be delivered.
NoCloseEventPending == \A a \in Used : att[a].hs # "closing"

\* Every pending callback has run: no attempt in flight, no close event
\* to deliver, no Rotation Timer armed, no decode under way.
AllCallbacksRan ==
  /\ ~OpenInFlight
  /\ NoCloseEventPending
  /\ rotationTimers = {}
  /\ decoding = {}

\* C24: no handle is leaked.  While the state is Active, no open attempt
\* is in flight and no close event is pending, exactly one handle is open
\* and it is the send target; and after stop(), once every pending callback
\* has run, no handle is open.
C24_NoHandleLeaked ==
  /\ (status.isActive /\ ~OpenInFlight /\ NoCloseEventPending)
       => OpenHandles = {sessionRef}
  /\ (isUserInitiatedStop /\ AllCallbacksRan) => OpenHandles = {}

\* The replacement attempts (made by the Rotation Timer, by onclose or by
\* the backoff retry) that have neither opened nor failed.
ReplacementsInFlight ==
  {a \in Used : att[a].isRotation /\ att[a].pc \in {"media", "connecting"}}

\* C25: at most one replacement open attempt is in flight at any time.
C25_OneReplacementInFlight == Cardinality(ReplacementsInFlight) <= 1

\* C26: both turn buffers are empty whenever a conversation begins: the
\* step in which start() makes its attempt leaves the input and the output
\* buffer empty, so no text received before a stop() reaches a record of
\* the conversation started after it.
C26_BuffersEmptyAtStart ==
  [][(nAtt' = nAtt + 1 /\ att'[nAtt'].trigger = "start")
       => (currentInputTransRef' = <<>> /\ currentOutputTransRef' = <<>>)]_vars
====
